---------------------------- MODULE Spec2Model ----------------------------
(***************************************************************************)
(* A model of scripts/build-trechos.mjs: the Overpass fetch client with    *)
(* its retry and failover rules, the per-road download loop with its cache *)
(* and its minimum download delay, the assembly of way fragments into      *)
(* chains, the stitching of chains into one line, the assembly of a line   *)
(* from a relation, and the slicing of a monitored segment out of a road   *)
(* line.                                                                   *)
(*                                                                         *)
(* Coordinates are pairs <<lon, lat>> of integers in micro-degrees         *)
(* (1e-6 degree), so that the rounding of toKey to five decimals is a real *)
(* rounding.  Durations and clock readings are integers in milliseconds.   *)
(***************************************************************************)
EXTENDS Integers, Sequences, FiniteSets, TLC

VARIABLES
    asm,            \* the state of one call of buildComponentsFromWays
    fpc,            \* fetchOverpass: "call" (about to send a request),
                    \* "returned" or "thrown"
    attempt,        \* fetchOverpass: the argument attempt of the current call
    endpointIndex,  \* fetchOverpass: the argument endpointIndex
    response,       \* what the last request met: "none", "exception", "429",
                    \* "5xx", "status", "undecodable" or "payload"
    waitMs,         \* the sleep that followed the last request (NoWait: none)
    fetchError,     \* the Error thrown: "none", "network", "status", "invalid"
    reqAttempt,     \* attempt of the call that sent the last request
    reqEndpoint,    \* endpointIndex of the call that sent the last request
    requests,       \* the number of requests sent
    onlyExceptions, \* every request sent so far raised an exception
    retryAfter,     \* the retry-after header of the last 429 response
    limited,        \* the number of requests answered with 429
    rpc,            \* the run: "loop" (head of the road loop), "relation" and
                    \* "fallback" (in fetchRoad, before each query),
                    \* "written" (output written) or "aborted" (uncaught throw)
    index,          \* the run: the loop variable index, counted from 1
    cacheFile,      \* the file BR-<road>.geojson of each road
    cacheFile0,     \* the same files as they were when the run began
    roadCache,      \* the Map roadCache: road -> feature (NoFeature: absent)
    lastDownloadAt, \* the variable lastDownloadAt
    now,            \* the clock read by Date.now()
    segments,       \* fetchRoad: the ways collected so far
    seenWayIds,     \* fetchRoad: the ids of the ways collected so far
    outputWritten,  \* trechos.geojson has been written
    fetchCalls,     \* per road: the number of fetchOverpass calls made
    cacheWrites,    \* per road: the number of saveRoadCache calls made
    thrown,         \* per road: the queries whose fetchOverpass threw
    startedAt,      \* per road: the clock when fetchRoad was called (0: never)
    completedAt,    \* per road: lastDownloadAt as set after fetchRoad (0: never)
    delayMs,        \* per road: the sleep of line 390 (0: none)
    assembled,      \* per road: the result of buildLineFromSegments
    stc,            \* the state of one call of stitchComponents
    rel,            \* the state of one call of buildLineFromRelation
    slc             \* the state of one call of the features.map callback

waysVars == <<asm>>
geomVars == <<stc, rel, slc>>
fetchVars == <<fpc, attempt, endpointIndex, response, waitMs, fetchError,
               reqAttempt, reqEndpoint, requests, onlyExceptions, retryAfter,
               limited>>
runVars == <<rpc, index, cacheFile, cacheFile0, roadCache, lastDownloadAt, now,
             segments, seenWayIds, outputWritten, fetchCalls, cacheWrites,
             thrown, startedAt, completedAt, delayMs, assembled>>
vars == <<asm, fpc, attempt, endpointIndex, response, waitMs, fetchError,
          reqAttempt, reqEndpoint, requests, onlyExceptions, retryAfter,
          limited,
          rpc, index, cacheFile, cacheFile0, roadCache, lastDownloadAt, now,
          segments, seenWayIds, outputWritten, fetchCalls, cacheWrites,
          thrown, startedAt, completedAt, delayMs, assembled,
          stc, rel, slc>>

---------------------------------------------------------------------------
(* Small helpers.                                                          *)

Abs(x) == IF x < 0 THEN -x ELSE x

Min(a, b) == IF a < b THEN a ELSE b

Max(a, b) == IF a > b THEN a ELSE b

Last(s) == s[Len(s)]

Front(s) == SubSeq(s, 1, Len(s) - 1)

Reverse(s) == [k \in 1..Len(s) |-> s[Len(s) + 1 - k]]

RECURSIVE SumLen(_)
SumLen(ss) == IF ss = <<>> THEN 0 ELSE Len(ss[1]) + SumLen(Tail(ss))

RECURSIVE Flatten(_)
Flatten(ss) == IF ss = <<>> THEN <<>> ELSE ss[1] \o Flatten(Tail(ss))

---------------------------------------------------------------------------
(* toKey: each component printed with five decimals.  Number.toFixed       *)
(* prints the sign and then the magnitude rounded to the nearest multiple  *)
(* of 1e-5 (the larger one when two are equally near), so a key component  *)
(* is the pair <<negative, rounded magnitude>>: -0.000003 prints as        *)
(* "-0.00000" and 0.000003 as "0.00000".                                   *)

\* The point of the meridian 47 W at the latitude lat.
Pt(lat) == <<-47000000, lat>>

ToFixed5(v) == <<v < 0, (Abs(v) + 5) \div 10>>

ToKey(coord) == <<ToFixed5(coord[1]), ToFixed5(coord[2])>>

ApproxEqual(a, b) == ToKey(a) = ToKey(b)

---------------------------------------------------------------------------
(* buildComponentsFromWays, as a step function over the state of the call. *)
(* The fields keep the names of the locals: segmentsCoords, adjacency,     *)
(* used, assembledLines, coords and the index i of the seed loop.  pc is   *)
(* the position in the code ("seed": the head of the for loop, "forward"   *)
(* and "backward": the head of the while loop of the two extendLine calls, *)
(* "done": returned).  Three fields only observe the run: marks[k] counts  *)
(* the assignments used[k] = true, pieces lists the ways spliced into      *)
(* coords from its first coordinate to its last, members is pieces for     *)
(* each finished chain, and steps counts the loop iterations.              *)

NoEntry == [idx |-> 0, atStart |-> FALSE]

AddAdjacency(adjacency, coord, idx, atStart) ==
    LET key == ToKey(coord)
        entry == [idx |-> idx, atStart |-> atStart]
    IN  IF key \in DOMAIN adjacency
        THEN [adjacency EXCEPT ![key] = Append(@, entry)]
        ELSE adjacency @@ (key :> <<entry>>)

RECURSIVE IndexWays(_, _, _)
IndexWays(segmentsCoords, idx, adjacency) ==
    IF idx > Len(segmentsCoords) THEN adjacency
    ELSE LET c == segmentsCoords[idx]
             a1 == AddAdjacency(adjacency, c[1], idx, TRUE)
             a2 == AddAdjacency(a1, c[Len(c)], idx, FALSE)
         IN  IndexWays(segmentsCoords, idx + 1, a2)

\* A takeNext that stops at the first used entry instead of skipping it.
PopUnusedStopAtUsed(entries, used) ==
    IF entries = <<>> THEN [entry |-> NoEntry, entries |-> <<>>]
    ELSE LET e == Last(entries)
         IN  IF used[e.idx] THEN [entry |-> NoEntry, entries |-> Front(entries)]
             ELSE [entry |-> e, entries |-> Front(entries)]

\* A takeNext that returns the popped entry without looking at used.
PopUnusedNoCheck(entries, used) ==
    IF entries = <<>> THEN [entry |-> NoEntry, entries |-> <<>>]
    ELSE [entry |-> Last(entries), entries |-> Front(entries)]

\* The while loop of takeNext: pop entries until one of an unused way.
RECURSIVE PopUnused(_, _)
PopUnused(entries, used) ==
    IF entries = <<>> THEN [entry |-> NoEntry, entries |-> <<>>]
    ELSE LET e == Last(entries)
         IN  IF used[e.idx] THEN PopUnused(Front(entries), used)
             ELSE [entry |-> e, entries |-> Front(entries)]

\* takeNext(coord): the entry taken (NoEntry for undefined) and the
\* adjacency map after the pops.
TakeNext(adjacency, used, coord) ==
    LET key == ToKey(coord)
    IN  IF key \notin DOMAIN adjacency
        THEN [entry |-> NoEntry, adjacency |-> adjacency]
        ELSE LET r == PopUnused(adjacency[key], used)
             IN  [entry |-> r.entry,
                  adjacency |-> [adjacency EXCEPT ![key] = r.entries]]

AsmStart(segmentsCoords) ==
    [segmentsCoords |-> segmentsCoords,
     adjacency      |-> IndexWays(segmentsCoords, 1, <<>>),
     used           |-> [k \in 1..Len(segmentsCoords) |-> FALSE],
     assembledLines |-> <<>>,
     coords         |-> <<>>,
     i              |-> 1,
     pc             |-> "seed",
     marks          |-> [k \in 1..Len(segmentsCoords) |-> 0],
     pieces         |-> <<>>,
     members        |-> <<>>,
     steps          |-> 0]

\* One iteration of the for loop up to the first extendLine call.
SeedStep(st) ==
    IF st.i > Len(st.segmentsCoords)
    THEN [st EXCEPT !.pc = "done", !.steps = @ + 1]
    ELSE IF st.used[st.i]
    THEN [st EXCEPT !.i = @ + 1, !.steps = @ + 1]
    ELSE [st EXCEPT !.used[st.i] = TRUE,
                    !.marks[st.i] = @ + 1,
                    !.coords = st.segmentsCoords[st.i],
                    !.pieces = <<st.i>>,
                    !.pc = "forward",
                    !.steps = @ + 1]

\* One iteration of the while loop of extendLine(coords, 'forward').
ForwardStep(st) ==
    LET anchor == Last(st.coords)
        t == TakeNext(st.adjacency, st.used, anchor)
        next == t.entry
    IN  IF next = NoEntry
        THEN [st EXCEPT !.adjacency = t.adjacency, !.pc = "backward",
                        !.steps = @ + 1]
        ELSE LET raw == st.segmentsCoords[next.idx]
                 nextCoords == IF ~next.atStart THEN Reverse(raw) ELSE raw
             IN  [st EXCEPT !.adjacency = t.adjacency,
                            !.used[next.idx] = TRUE,
                            !.marks[next.idx] = @ + 1,
                            !.coords = @ \o Tail(nextCoords),
                            !.pieces = Append(@, next.idx),
                            !.steps = @ + 1]

\* A for loop body without extendLine(coords, 'backward'): the chain is
\* pushed as the forward extension left it.
BackwardStepSkipped(st) ==
    [st EXCEPT !.assembledLines = Append(@, st.coords),
               !.members = Append(@, st.pieces),
               !.coords = <<>>,
               !.pieces = <<>>,
               !.i = @ + 1,
               !.pc = "seed",
               !.steps = @ + 1]

\* One iteration of the while loop of extendLine(coords, 'backward'); when
\* it breaks, the rest of the for loop's body: push the chain, i += 1.
BackwardStep(st) ==
    LET anchor == st.coords[1]
        t == TakeNext(st.adjacency, st.used, anchor)
        next == t.entry
    IN  IF next = NoEntry
        THEN [st EXCEPT !.adjacency = t.adjacency,
                        !.assembledLines = Append(@, st.coords),
                        !.members = Append(@, st.pieces),
                        !.coords = <<>>,
                        !.pieces = <<>>,
                        !.i = @ + 1,
                        !.pc = "seed",
                        !.steps = @ + 1]
        ELSE LET raw == st.segmentsCoords[next.idx]
                 nextCoords == IF next.atStart THEN Reverse(raw) ELSE raw
             IN  [st EXCEPT !.adjacency = t.adjacency,
                            !.used[next.idx] = TRUE,
                            !.marks[next.idx] = @ + 1,
                            !.coords = Front(nextCoords) \o @,
                            !.pieces = <<next.idx>> \o @,
                            !.steps = @ + 1]

AsmStep(st) ==
    CASE st.pc = "seed"     -> SeedStep(st)
      [] st.pc = "forward"  -> ForwardStep(st)
      [] st.pc = "backward" -> BackwardStep(st)
      [] OTHER              -> st

RECURSIVE AsmRun(_)
AsmRun(st) == IF st.pc = "done" THEN st ELSE AsmRun(AsmStep(st))

BuildComponentsFromWays(segmentsCoords) ==
    AsmRun(AsmStart(segmentsCoords)).assembledLines

---------------------------------------------------------------------------
(* Distances.  @turf/distance is the haversine distance on a sphere of     *)
(* radius 6371.0088 km.  Between two points of one meridian it is the      *)
(* radius times the difference of the latitudes: 111.195 mm for each       *)
(* micro-degree.  Every coordinate of this model lies on one meridian, and *)
(* distances and lengths are integers in millimetres.                      *)

\* (the product is taken in two parts to stay within 32-bit integers)
DistanceMm(a, b) ==
    LET d == Abs(a[2] - b[2])
    IN  (d \div 1000) * 111195 + ((d % 1000) * 111195) \div 1000

MmPerKm == 1000000

\* @turf/length of a line string: the sum of the distances between
\* consecutive coordinates.
RECURSIVE LengthMm(_)
LengthMm(coords) ==
    IF Len(coords) < 2 THEN 0
    ELSE DistanceMm(coords[1], coords[2]) + LengthMm(Tail(coords))

---------------------------------------------------------------------------
(* stitchComponents.                                                       *)

MaxStitchGapKm == 15

NoLine == [isNull |-> TRUE, coords |-> <<>>, lengthMm |-> 0]

\* Array.prototype.sort with (a, b) => b.lengthKm - a.lengthKm is stable:
\* x goes behind every element at least as long.
RECURSIVE InsertByLength(_, _)
InsertByLength(sorted, x) ==
    IF sorted = <<>> THEN <<x>>
    ELSE IF sorted[1].lengthMm >= x.lengthMm
         THEN <<sorted[1]>> \o InsertByLength(Tail(sorted), x)
         ELSE <<x>> \o sorted

RECURSIVE SortByLength(_, _)
SortByLength(items, sorted) ==
    IF items = <<>> THEN sorted
    ELSE SortByLength(Tail(items), InsertByLength(sorted, items[1]))

\* lines 168-179: the four attachments of one remaining segment, and the
\* first of the closest among them.
Candidates(head, tail, segment) ==
    LET start == segment.coords[1]
        end == Last(segment.coords)
    IN  <<[dist |-> DistanceMm(tail, start), flip |-> FALSE, attachHead |-> FALSE],
          [dist |-> DistanceMm(tail, end), flip |-> TRUE, attachHead |-> FALSE],
          [dist |-> DistanceMm(head, end), flip |-> FALSE, attachHead |-> TRUE],
          [dist |-> DistanceMm(head, start), flip |-> TRUE, attachHead |-> TRUE]>>

\* The reduce with <= in place of <: the last of the closest.
RECURSIVE LastClosest(_, _, _)
LastClosest(cands, k, acc) ==
    IF k > Len(cands) THEN acc
    ELSE LastClosest(cands, k + 1,
                     IF cands[k].dist <= acc.dist THEN cands[k] ELSE acc)

RECURSIVE FirstClosest(_, _, _)
FirstClosest(cands, k, acc) ==
    IF k > Len(cands) THEN acc
    ELSE FirstClosest(cands, k + 1,
                      IF cands[k].dist < acc.dist THEN cands[k] ELSE acc)

BestCandidate(head, tail, segment) ==
    LET cands == Candidates(head, tail, segment)
    IN  FirstClosest(cands, 2, cands[1])

\* lines 167-184: the index in remaining of the first segment whose best
\* candidate is the closest (0: remaining is empty).
RECURSIVE BestIdx(_, _, _, _, _)
BestIdx(head, tail, remaining, k, bestIdx) ==
    IF k > Len(remaining) THEN bestIdx
    ELSE IF bestIdx = 0
            \/ BestCandidate(head, tail, remaining[k]).dist
                 < BestCandidate(head, tail, remaining[bestIdx]).dist
         THEN BestIdx(head, tail, remaining, k + 1, k)
         ELSE BestIdx(head, tail, remaining, k + 1, bestIdx)

\* lines 190-204: the splice of one segment onto merged.
Splice(merged, segment, best) ==
    LET coords == IF best.flip THEN Reverse(segment.coords) ELSE segment.coords
    IN  IF best.attachHead
        THEN (IF ApproxEqual(merged[1], Last(coords)) THEN Front(coords) ELSE coords)
                \o merged
        ELSE merged
                \o (IF ApproxEqual(Last(merged), coords[1]) THEN Tail(coords) ELSE coords)

\* A gap the stitcher bridges whatever its width.
GapTooWideNever(best) == FALSE

\* line 186: best.dist > MAX_STITCH_GAP_KM
GapTooWide(best) == best.dist > MaxStitchGapKm * MmPerKm

\* lines 161-205: the while loop.
RECURSIVE StitchLoop(_, _)
StitchLoop(merged, remaining) ==
    IF remaining = <<>> THEN merged
    ELSE LET head == merged[1]
             tail == Last(merged)
             bestIdx == BestIdx(head, tail, remaining, 1, 0)
             best == BestCandidate(head, tail, remaining[bestIdx])
         IN  IF GapTooWide(best) THEN merged
             ELSE StitchLoop(
                    Splice(merged, remaining[bestIdx], best),
                    SubSeq(remaining, 1, bestIdx - 1)
                      \o SubSeq(remaining, bestIdx + 1, Len(remaining)))

StitchComponents(components) ==
    IF components = <<>> THEN NoLine
    ELSE LET stitched == SortByLength(
                 [c \in 1..Len(components) |->
                    [coords |-> components[c], lengthMm |-> LengthMm(components[c])]],
                 <<>>)
             coords == StitchLoop(stitched[1].coords, Tail(stitched))
         IN  [isNull |-> FALSE, coords |-> coords, lengthMm |-> LengthMm(coords)]

\* lines 213-218
BuildLineFromSegments(segmentsCoords) ==
    IF segmentsCoords = <<>> THEN NoLine
    ELSE LET components == BuildComponentsFromWays(segmentsCoords)
         IN  IF components = <<>> THEN NoLine ELSE StitchComponents(components)

---------------------------------------------------------------------------
(* stitchComponents, one iteration of its while loop at a time.  The       *)
(* fields parts, splices and stopDist are history: the chains that make up *)
(* merged, in the order of the line, with their orientation; every splice  *)
(* made, with merged and remaining as they were before it; and the best    *)
(* distance at the break of line 187 (-1: no such break).                  *)

\* lines 148-157: the sort, merged and remaining.
StitchStart(components) ==
    LET stitched == SortByLength(
            [c \in 1..Len(components) |->
               [coords |-> components[c],
                lengthMm |-> LengthMm(components[c]),
                id |-> c]],
            <<>>)
    IN  [pc |-> IF components = <<>> THEN "done" ELSE "loop",
         isNull |-> components = <<>>,
         components |-> components,
         stitched |-> stitched,
         merged |-> IF components = <<>> THEN <<>> ELSE stitched[1].coords,
         remaining |-> IF components = <<>> THEN <<>> ELSE Tail(stitched),
         parts |-> IF components = <<>> THEN <<>>
                   ELSE <<[id |-> stitched[1].id, flip |-> FALSE]>>,
         splices |-> <<>>,
         stopDist |-> -1]

\* lines 161-205: one iteration of the while loop, or its exit.
StitchStep(st) ==
    IF st.remaining = <<>> THEN [st EXCEPT !.pc = "done"]
    ELSE LET head == st.merged[1]
             tail == Last(st.merged)
             bestIdx == BestIdx(head, tail, st.remaining, 1, 0)
             best == BestCandidate(head, tail, st.remaining[bestIdx])
             part == [id |-> st.remaining[bestIdx].id, flip |-> best.flip]
         IN  IF GapTooWide(best)
             THEN [st EXCEPT !.pc = "done", !.stopDist = best.dist]
             ELSE [st EXCEPT
                     !.merged = Splice(st.merged, st.remaining[bestIdx], best),
                     !.remaining = SubSeq(st.remaining, 1, bestIdx - 1)
                                     \o SubSeq(st.remaining, bestIdx + 1,
                                               Len(st.remaining)),
                     !.parts = IF best.attachHead THEN <<part>> \o @
                               ELSE Append(@, part),
                     !.splices = Append(@,
                        [merged |-> st.merged,
                         remaining |-> st.remaining,
                         idx |-> bestIdx,
                         flip |-> best.flip,
                         attachHead |-> best.attachHead])]

\* lines 207-210: the value returned.
StitchResult(st) ==
    IF st.isNull THEN NoLine
    ELSE [isNull |-> FALSE, coords |-> st.merged, lengthMm |-> LengthMm(st.merged)]

StitchIdle == stc = StitchStart(<<>>)

---------------------------------------------------------------------------
(* buildLineFromRelation(relation, waysById), one member of the for loop   *)
(* at a time.  A relation is [isNull, members], a member [type, ref,       *)
(* role], and waysById maps a ref to [present, coords].  The field joins   *)
(* is history: for every member whose coordinates were pushed, the member, *)
(* coords before and after, and the segment as it was at line 237.         *)

\* The fragment flipped also when its two ends are equally near.
FlipNeededOnTie(startDist, endDist) == endDist <= startDist

\* line 245: endDist < startDist
FlipNeeded(startDist, endDist) == endDist < startDist

RelStart(relation, waysById) ==
    [pc |-> IF relation.isNull THEN "done" ELSE "loop",
     relation |-> relation,
     waysById |-> waysById,
     i |-> 1,
     coords |-> <<>>,
     seenWays |-> {},
     joins |-> <<>>]

\* lines 242-252: a member after the first.
RelAttach(coords, segment) ==
    LET prev == Last(coords)
        startDist == DistanceMm(prev, segment[1])
        endDist == DistanceMm(prev, Last(segment))
        oriented == IF FlipNeeded(startDist, endDist) THEN Reverse(segment)
                    ELSE segment
    IN  IF ApproxEqual(prev, oriented[1])
        THEN coords \o Tail(oriented)
        ELSE coords \o oriented

\* lines 229-253: one iteration of the for loop, or its exit.
RelStep(st) ==
    IF st.i > Len(st.relation.members) THEN [st EXCEPT !.pc = "done"]
    ELSE LET member == st.relation.members[st.i]
             way == st.waysById[member.ref]
             segment == IF member.role = "backward" THEN Reverse(way.coords)
                        ELSE way.coords
             pushed == IF st.coords = <<>> THEN segment
                       ELSE RelAttach(st.coords, segment)
         IN  IF \/ member.type # "way"
                \/ member.ref \in st.seenWays
                \/ ~way.present
                \/ Len(way.coords) < 2
             THEN [st EXCEPT !.i = @ + 1]
             ELSE [st EXCEPT
                     !.i = @ + 1,
                     !.seenWays = @ \cup {member.ref},
                     !.coords = pushed,
                     !.joins = Append(@,
                        [member |-> member,
                         segment |-> segment,
                         before |-> st.coords,
                         after |-> pushed])]

\* lines 226 and 254-258: the value returned.
RelResult(st) ==
    IF st.relation.isNull \/ Len(st.coords) < 2 THEN NoLine
    ELSE [isNull |-> FALSE, coords |-> st.coords, lengthMm |-> LengthMm(st.coords)]

NoRelation == [isNull |-> TRUE, members |-> <<>>]

NoWays == [ref \in {} |-> [present |-> FALSE, coords |-> <<>>]]

RelIdle == rel = RelStart(NoRelation, NoWays)

---------------------------------------------------------------------------
(* The slicer: the callback of segments.map (lines 445-489) for one        *)
(* monitored segment.  Distances along the road (kmStart, kmEnd,           *)
(* totalLength, start, end, delta) are integers in millimetres.            *)

\* A clamp that forgets the lower limit.
ClampUpperOnly(value, min, max) == Min(value, max)

\* line 409
Clamp(value, min, max) == Min(Max(value, min), max)

MaxGapKm == 8

\* The micro-degrees of latitude that a distance along the meridian spans,
\* to the nearest (the inverse of DistanceMm, taken in two parts).
MmToMicroDeg(mm) ==
    (mm \div 111195) * 1000 + ((mm % 111195) * 1000 + 55597) \div 111195

\* @turf/destination from coords[i] back towards coords[i - 1], as
\* @turf/line-slice-along and @turf/along use it: the point that lies
\* -overshot before coords[i] on the line (overshot < 0).
Interpolated(coords, i, overshot) ==
    LET here == coords[i][2]
        before == coords[i - 1][2]
        step == MmToMicroDeg(-overshot)
    IN  Pt(IF before >= here THEN here + step ELSE here - step)

\* @turf/line-slice-along: its loop from index i on, with the distance
\* travelled to coords[i] and the slice collected so far.  The result is
\* the coordinate array handed to lineString, or beyond = TRUE for the
\* throw "Start position is beyond line".
RECURSIVE SliceFrom(_, _, _, _, _, _)
SliceFrom(coords, startDist, stopDist, i, travelled, slice) ==
    IF startDist >= travelled /\ i = Len(coords)
    THEN [beyond |-> travelled < startDist,
          coords |-> <<Last(coords), Last(coords)>>]
    ELSE LET entered == IF travelled > startDist /\ slice = <<>>
                        THEN <<Interpolated(coords, i, startDist - travelled)>>
                        ELSE slice
         IN  IF travelled >= stopDist
             THEN [beyond |-> FALSE,
                   coords |-> Append(entered,
                                IF stopDist = travelled THEN coords[i]
                                ELSE Interpolated(coords, i, stopDist - travelled))]
             ELSE LET kept == IF travelled >= startDist
                              THEN Append(entered, coords[i])
                              ELSE entered
                  IN  IF i = Len(coords)
                      THEN [beyond |-> FALSE, coords |-> kept]
                      ELSE SliceFrom(coords, startDist, stopDist, i + 1,
                                     travelled + DistanceMm(coords[i], coords[i + 1]),
                                     kept)

\* line 453
LineSliceAlong(coords, startDist, stopDist) ==
    SliceFrom(coords, startDist, stopDist, 1, 0, <<>>)

\* @turf/along (lines 465-466): the point at a distance along the line.
RECURSIVE AlongFrom(_, _, _, _)
AlongFrom(coords, dist, i, travelled) ==
    IF dist >= travelled /\ i = Len(coords) THEN Last(coords)
    ELSE IF travelled >= dist
         THEN (IF dist = travelled THEN coords[i]
               ELSE Interpolated(coords, i, dist - travelled))
         ELSE AlongFrom(coords, dist, i + 1,
                        travelled + DistanceMm(coords[i], coords[i + 1]))

Along(coords, dist) == AlongFrom(coords, dist, 1, 0)

\* A delta without its floor of 0.05 km.
FallbackDeltaNoFloor(totalLength) == Min(MmPerKm, totalLength \div 100)

\* line 456: Math.max(0.05, Math.min(1, totalLength * 0.01))
FallbackDelta(totalLength) ==
    Max(MmPerKm \div 20, Min(MmPerKm, totalLength \div 100))

\* lines 456-464: the two distances of the fallback.
FallbackDistances(start, end, totalLength) ==
    LET delta == FallbackDelta(totalLength)
        fallbackStart == Clamp(start - delta \div 2, 0, totalLength)
        fallbackEnd == Clamp(end + delta \div 2, 0, totalLength)
    IN  IF fallbackStart # fallbackEnd
        THEN [fallbackStart |-> fallbackStart, fallbackEnd |-> fallbackEnd]
        ELSE IF fallbackEnd >= totalLength
             THEN [fallbackStart |-> Max(0, totalLength - delta),
                   fallbackEnd |-> fallbackEnd]
             ELSE [fallbackStart |-> fallbackStart,
                   fallbackEnd |-> Min(totalLength, fallbackEnd + delta)]

\* A gap that never counts as one.
GapExceededNever(gap) == FALSE

\* line 420: gap > MAX_GAP_KM
GapExceeded(gap) == gap > MaxGapKm * MmPerKm

\* A run kept whatever its length.
RunKeptAlways(current) == TRUE

\* lines 421 and 427: current.length > 1
RunKept(current) == Len(current) > 1

\* lines 416-428: the for loop from index i on and the last push.
RECURSIVE SplitFrom(_, _, _, _)
SplitFrom(coords, i, chunks, current) ==
    IF i > Len(coords)
    THEN (IF RunKept(current) THEN Append(chunks, current) ELSE chunks)
    ELSE IF GapExceeded(DistanceMm(coords[i - 1], coords[i]))
         THEN SplitFrom(coords, i + 1,
                        IF RunKept(current) THEN Append(chunks, current) ELSE chunks,
                        <<coords[i]>>)
         ELSE SplitFrom(coords, i + 1, chunks, Append(current, coords[i]))

\* lines 412-429
SplitByGap(coords) ==
    IF Len(coords) < 2 THEN <<>>
    ELSE SplitFrom(coords, 2, <<>>, <<coords[1]>>)

\* A geometry is [type, coordinates]; coordinates holds the line parts,
\* the single one of a LineString or the several of a MultiLineString.
NoGeometry == [type |-> "null", coordinates |-> <<>>]

LineGeometry(coords) == [type |-> "LineString", coordinates |-> <<coords>>]

\* Every result shaped as a MultiLineString.
BuildGeometryAlwaysMulti(chunks) ==
    IF chunks = <<>> THEN NoGeometry
    ELSE [type |-> "MultiLineString", coordinates |-> chunks]

\* lines 431-443
BuildGeometryFromChunks(chunks) ==
    IF chunks = <<>> THEN NoGeometry
    ELSE IF Len(chunks) = 1 THEN LineGeometry(chunks[1])
    ELSE [type |-> "MultiLineString", coordinates |-> chunks]

\* The callback before its first statement.  Three fields are history:
\* path is "slice" when the geometry is the slice of line 453 and "fallback"
\* when it is the two points of lines 465-467; delta is the delta of line
\* 456; unshaped is geometry.coordinates as splitByGap received it.
SlcStart(line, kmStart, kmEnd) ==
    [pc |-> "normalize",
     line |-> line,
     kmStart |-> kmStart,
     kmEnd |-> kmEnd,
     totalLength |-> LengthMm(line),
     start |-> 0,
     end |-> 0,
     path |-> "none",
     delta |-> 0,
     fallbackStart |-> 0,
     fallbackEnd |-> 0,
     sliced |-> <<>>,
     unshaped |-> <<>>,
     cleanedChunks |-> <<>>,
     geometry |-> NoGeometry]

\* lines 450-452
SlcNormalize(st) ==
    [st EXCEPT
       !.pc = "slice",
       !.start = Clamp(Min(st.kmStart, st.kmEnd), 0, st.totalLength),
       !.end = Clamp(Max(st.kmStart, st.kmEnd), 0, st.totalLength)]

\* lines 453-454: the slice has two coordinates or more.
SlcSlice(st) ==
    LET sliced == LineSliceAlong(st.line, st.start, st.end).coords
    IN  [st EXCEPT !.pc = "shape", !.path = "slice", !.sliced = sliced,
                   !.geometry = LineGeometry(sliced)]

\* lines 455-468: the slice has fewer than two coordinates.
SlcFallback(st) ==
    LET d == FallbackDistances(st.start, st.end, st.totalLength)
        startPoint == Along(st.line, d.fallbackStart)
        endPoint == Along(st.line, d.fallbackEnd)
    IN  [st EXCEPT !.pc = "shape", !.path = "fallback",
                   !.sliced = LineSliceAlong(st.line, st.start, st.end).coords,
                   !.delta = FallbackDelta(st.totalLength),
                   !.fallbackStart = d.fallbackStart,
                   !.fallbackEnd = d.fallbackEnd,
                   !.geometry = LineGeometry(<<startPoint, endPoint>>)]

\* lines 470-476
SlcShape(st) ==
    LET cleanedChunks == SplitByGap(st.geometry.coordinates[1])
        newGeometry == BuildGeometryFromChunks(cleanedChunks)
    IN  [st EXCEPT !.pc = "done",
                   !.unshaped = st.geometry.coordinates[1],
                   !.cleanedChunks = cleanedChunks,
                   !.geometry = IF cleanedChunks # <<>> /\ newGeometry # NoGeometry
                                THEN newGeometry ELSE @]

SlcIdle == slc = [SlcStart(<<Pt(0), Pt(0)>>, 0, 0) EXCEPT !.pc = "idle"]

GeomIdle == StitchIdle /\ RelIdle /\ SlcIdle

---------------------------------------------------------------------------
(* fetchOverpass(query, attempt = 1, endpointIndex = 0).  The recursion is *)
(* a loop over the pair (attempt, endpointIndex): every action below is    *)
(* one request with the handling of what it met, up to the recursive call, *)
(* the return or the throw.                                                *)

NumEndpoints == 2

NoWait == -1

\* The largest attempt at which the model still answers 429 (the code has
\* no such limit).
MaxAttempt == 7

Statuses5xx == {500, 503}

StatusesOther == {400, 404}

\* The retry-after header of a 429: absent, not a number (an HTTP date), or
\* a number of seconds.
NoHeader == [kind |-> "absent", n |-> 0]

RetryAfterHeaders ==
    {NoHeader, [kind |-> "text", n |-> 0]}
        \cup {[kind |-> "int", n |-> v] : v \in {0, 3, 20, 120}}

\* A transport failure that gives up one attempt late.
TransportBudgetSpentLate(a) == a >= 6

\* A transport failure that gives up one attempt early.
TransportBudgetSpentEarly(a) == a >= 4

\* line 270: the retry budget of the catch around fetch().
TransportBudgetSpent(a) == a >= 5

\* The transport wait with the factor of the 5xx wait.
TransportWaitMsAsServer(a) == Min(30000, a * 5000)

\* line 273
TransportWaitMs(a) == Min(30000, a * 4000)

\* The 5xx wait with the factor of the transport wait.
ServerWaitMsAsTransport(a) == Min(30000, a * 4000)

\* line 287
ServerWaitMs(a) == Min(30000, a * 5000)

\* A 5xx retry that has no budget.
ServerRetryAllowedAlways(status, a) == status >= 500

\* line 286
ServerRetryAllowed(status, a) == status >= 500 /\ a < 5

\* The decode wait with the factor of the 5xx wait.
DecodeWaitMsAsServer(a) == Min(30000, a * 5000)

\* line 301
DecodeWaitMs(a) == Min(30000, a * 4000)

\* A decode failure that gives up on the attempt budget alone.
DecodeBudgetSpentAttemptOnly(a, e) == a >= 5

\* line 298
DecodeBudgetSpent(a, e) == a >= 5 /\ e >= NumEndpoints - 1

\* The wait without its cap of 60 s.
RateLimitWaitMsUncapped(header, a) ==
    (IF header.kind = "int" /\ header.n # 0 THEN header.n ELSE 10) * 1000 * a

\* lines 279-281: parseInt yields NaN for a text; NaN and 0 are falsy.
RateLimitWaitMs(header, a) ==
    LET isNaN == header.kind = "text"
        retrySeconds == IF header.kind = "absent" THEN 10 ELSE header.n
        base == IF header.kind # "absent" /\ (isNaN \/ retrySeconds = 0)
                THEN 10 ELSE retrySeconds
    IN  Min(60000, base * 1000 * a)

FetchIdle ==
    /\ fpc = "returned"
    /\ attempt = 1
    /\ endpointIndex = 0
    /\ response = "none"
    /\ waitMs = NoWait
    /\ fetchError = "none"
    /\ reqAttempt = 1
    /\ reqEndpoint = 0
    /\ requests = 0
    /\ onlyExceptions = TRUE
    /\ retryAfter = NoHeader
    /\ limited = 0

\* fetchRoad calls fetchOverpass(query, attempt) with its own default
\* attempt = 1, and endpointIndex takes its default 0.
FetchEntry ==
    /\ fpc = "call"
    /\ attempt = 1
    /\ endpointIndex = 0
    /\ response = "none"
    /\ waitMs = NoWait
    /\ fetchError = "none"
    /\ reqAttempt = 1
    /\ reqEndpoint = 0
    /\ requests = 0
    /\ onlyExceptions = TRUE
    /\ retryAfter = NoHeader
    /\ limited = 0

\* What every request does to the observing variables.
Sent(kind) ==
    /\ fpc = "call"
    /\ response' = kind
    /\ reqAttempt' = attempt
    /\ reqEndpoint' = endpointIndex
    /\ requests' = requests + 1
    /\ onlyExceptions' = (onlyExceptions /\ kind = "exception")
    /\ kind # "429" => UNCHANGED retryAfter
    /\ limited' = IF kind = "429" THEN limited + 1 ELSE limited

\* lines 265-269: fetch() raised and a later endpoint exists.
TransportFailover ==
    /\ Sent("exception")
    /\ endpointIndex < NumEndpoints - 1
    /\ endpointIndex' = endpointIndex + 1
    /\ waitMs' = NoWait
    /\ UNCHANGED <<fpc, attempt, fetchError>>

\* lines 270-272: fetch() raised at the last endpoint, budget spent.
TransportThrow ==
    /\ Sent("exception")
    /\ ~(endpointIndex < NumEndpoints - 1)
    /\ TransportBudgetSpent(attempt)
    /\ fpc' = "thrown"
    /\ fetchError' = "network"
    /\ waitMs' = NoWait
    /\ UNCHANGED <<attempt, endpointIndex>>

\* lines 273-276: fetch() raised at the last endpoint, budget left.
TransportRetry ==
    /\ Sent("exception")
    /\ ~(endpointIndex < NumEndpoints - 1)
    /\ ~TransportBudgetSpent(attempt)
    /\ waitMs' = TransportWaitMs(attempt)
    /\ attempt' = attempt + 1
    /\ endpointIndex' = 0
    /\ UNCHANGED <<fpc, fetchError>>

\* A 429 handled like a 5xx: it gives up once the budget is spent.
RateLimitedWithBudget ==
    /\ Sent("429")
    /\ attempt < MaxAttempt
    /\ \E header \in RetryAfterHeaders :
        /\ retryAfter' = header
        /\ IF attempt < 5
           THEN /\ waitMs' = RateLimitWaitMs(header, attempt)
                /\ attempt' = attempt + 1
                /\ endpointIndex' = endpointIndex + 1
                /\ UNCHANGED <<fpc, fetchError>>
           ELSE /\ fpc' = "thrown"
                /\ fetchError' = "status"
                /\ waitMs' = NoWait
                /\ UNCHANGED <<attempt, endpointIndex>>

\* lines 278-285: status 429.
RateLimited ==
    /\ Sent("429")
    /\ attempt < MaxAttempt
    /\ \E header \in RetryAfterHeaders :
        /\ retryAfter' = header
        /\ waitMs' = RateLimitWaitMs(header, attempt)
    /\ attempt' = attempt + 1
    /\ endpointIndex' = endpointIndex + 1
    /\ UNCHANGED <<fpc, fetchError>>

\* lines 286-291: status 5xx with budget left.
ServerErrorRetry ==
    /\ Sent("5xx")
    /\ \E status \in Statuses5xx : ServerRetryAllowed(status, attempt)
    /\ waitMs' = ServerWaitMs(attempt)
    /\ attempt' = attempt + 1
    /\ endpointIndex' = endpointIndex + 1
    /\ UNCHANGED <<fpc, fetchError>>

\* lines 286, 292-294: status 5xx with the budget spent is a plain non-OK.
ServerErrorThrow ==
    /\ Sent("5xx")
    /\ \E status \in Statuses5xx : ~ServerRetryAllowed(status, attempt)
    /\ fpc' = "thrown"
    /\ fetchError' = "status"
    /\ waitMs' = NoWait
    /\ UNCHANGED <<attempt, endpointIndex>>

\* A non-OK status retried as a 5xx is.
StatusThrowRetried ==
    /\ Sent("status")
    /\ \E status \in StatusesOther : status # 429 /\ ~(status >= 500)
    /\ IF attempt < 5
       THEN /\ waitMs' = ServerWaitMs(attempt)
            /\ attempt' = attempt + 1
            /\ endpointIndex' = endpointIndex + 1
            /\ UNCHANGED <<fpc, fetchError>>
       ELSE /\ fpc' = "thrown"
            /\ fetchError' = "status"
            /\ waitMs' = NoWait
            /\ UNCHANGED <<attempt, endpointIndex>>

\* lines 292-294: a non-OK status that is neither 429 nor 5xx.
StatusThrow ==
    /\ Sent("status")
    /\ \E status \in StatusesOther : status # 429 /\ ~(status >= 500)
    /\ fpc' = "thrown"
    /\ fetchError' = "status"
    /\ waitMs' = NoWait
    /\ UNCHANGED <<attempt, endpointIndex>>

\* lines 295-300: response.json() raised, budget and endpoints spent.
DecodeThrow ==
    /\ Sent("undecodable")
    /\ DecodeBudgetSpent(attempt, endpointIndex)
    /\ fpc' = "thrown"
    /\ fetchError' = "invalid"
    /\ waitMs' = NoWait
    /\ UNCHANGED <<attempt, endpointIndex>>

\* lines 301-304: response.json() raised, retried.
DecodeRetry ==
    /\ Sent("undecodable")
    /\ ~DecodeBudgetSpent(attempt, endpointIndex)
    /\ waitMs' = DecodeWaitMs(attempt)
    /\ attempt' = attempt + 1
    /\ endpointIndex' = endpointIndex + 1
    /\ UNCHANGED <<fpc, fetchError>>

\* lines 295-296: the body decodes and is returned.
ReturnPayload ==
    /\ Sent("payload")
    /\ fpc' = "returned"
    /\ waitMs' = NoWait
    /\ UNCHANGED <<attempt, endpointIndex, fetchError>>

---------------------------------------------------------------------------
(* The run: the road loop of lines 381-400 with readRoadCache, fetchRoad   *)
(* and saveRoadCache, and the writing of the output (lines 445-502).  The  *)
(* roads are uniqueRoads[0], uniqueRoads[1], ...: road r is the r-th of    *)
(* them.  A call of fetchOverpass is one step here: it returns a payload   *)
(* or throws (SpecFetch has its requests and retries).                     *)

NumRoads == 2

Roads == 1..NumRoads

MinDownloadDelayMs == 6000

RoadCacheVersion == 4

NoFeature == [present |-> FALSE, cacheVersion |-> 0, coords |-> <<>>, lengthMm |-> 0]

\* The files a run may find: none, one that is no JSON, JSON without
\* properties.cacheVersion, a feature of the previous format version, and a
\* feature of the current one, which an earlier run of this program wrote
\* (so it holds a line).
CacheFiles ==
    {[kind |-> "missing", hasVersion |-> FALSE, cacheVersion |-> 0, coords |-> <<>>],
     [kind |-> "garbage", hasVersion |-> FALSE, cacheVersion |-> 0, coords |-> <<>>],
     [kind |-> "json", hasVersion |-> FALSE, cacheVersion |-> 0, coords |-> <<>>],
     [kind |-> "json", hasVersion |-> TRUE, cacheVersion |-> RoadCacheVersion - 1,
      coords |-> <<Pt(0), Pt(20)>>],
     [kind |-> "json", hasVersion |-> TRUE, cacheVersion |-> RoadCacheVersion,
      coords |-> <<Pt(0), Pt(20)>>]}

\* A readRoadCache that accepts every file that parses as a feature.
ReadRoadCacheAnyVersion(file) ==
    IF file.kind # "json" \/ ~file.hasVersion THEN NoFeature
    ELSE [present |-> TRUE, cacheVersion |-> file.cacheVersion,
          coords |-> file.coords, lengthMm |-> LengthMm(file.coords)]

\* lines 308-318: null (NoFeature) when the file cannot be read or parsed,
\* or when properties.cacheVersion is not the current version.
ReadRoadCache(file) ==
    IF file.kind # "json" THEN NoFeature
    ELSE IF ~file.hasVersion \/ file.cacheVersion # RoadCacheVersion THEN NoFeature
    ELSE [present |-> TRUE, cacheVersion |-> file.cacheVersion,
          coords |-> file.coords, lengthMm |-> LengthMm(file.coords)]

\* lines 320-323
SaveRoadCache(feature) ==
    [kind |-> "json", hasVersion |-> TRUE, cacheVersion |-> feature.cacheVersion,
     coords |-> feature.coords]

\* The elements of a payload: ways with an id and a geometry, and the
\* relation itself, which has none.
WayEl(id, geometry) ==
    [type |-> "way", id |-> id, hasGeometry |-> TRUE, geometry |-> geometry]

RelationEl == [type |-> "relation", id |-> 900, hasGeometry |-> FALSE, geometry |-> <<>>]

\* The payloads a query may return: no element; only a way of one point;
\* the relation with two ways that meet at a rounded endpoint; one of these
\* ways again with a way 11 km further north.
Payloads ==
    {<<>>,
     <<WayEl(3, <<Pt(30)>>)>>,
     <<RelationEl, WayEl(1, <<Pt(0), Pt(10)>>), WayEl(2, <<Pt(14), Pt(20)>>)>>,
     <<WayEl(1, <<Pt(0), Pt(10)>>), WayEl(4, <<Pt(100000), Pt(100040)>>)>>}

\* lines 331-339 and 347-355: the ways of a payload, added to segments.
RECURSIVE CollectWays(_, _, _)
CollectWays(segs, seen, elements) ==
    IF elements = <<>> THEN [segments |-> segs, seenWayIds |-> seen]
    ELSE LET el == elements[1]
             coords == el.geometry
         IN  IF el.type # "way" \/ ~el.hasGeometry \/ Len(coords) < 2
                \/ el.id \in seen
             THEN CollectWays(segs, seen, Tail(elements))
             ELSE CollectWays(Append(segs, coords), seen \cup {el.id},
                              Tail(elements))

\* A check of the geometry that lets everything pass.
GeometryInvalidNever(geometryResult) == FALSE

\* line 361
GeometryInvalid(geometryResult) ==
    geometryResult.isNull \/ Len(geometryResult.coords) < 2

\* A delay that is never taken.
DownloadDelayNone(last, clock) == 0

\* lines 388-391: the sleep before fetchRoad.
DownloadDelay(last, clock) ==
    LET elapsed == clock - last
    IN  IF last # 0 /\ elapsed < MinDownloadDelayMs
        THEN MinDownloadDelayMs - elapsed
        ELSE 0

\* The time readRoadCache may take, and the time a fetchOverpass call may.
ReadDurations == {5, 7000}

FetchDurations == {1200}

RunIdle ==
    /\ rpc = "idle"
    /\ index = 1
    /\ cacheFile = [r \in Roads |-> CHOOSE f \in CacheFiles : f.kind = "missing"]
    /\ cacheFile0 = cacheFile
    /\ roadCache = [r \in Roads |-> NoFeature]
    /\ lastDownloadAt = 0
    /\ now = 0
    /\ segments = <<>>
    /\ seenWayIds = {}
    /\ outputWritten = FALSE
    /\ fetchCalls = [r \in Roads |-> 0]
    /\ cacheWrites = [r \in Roads |-> 0]
    /\ thrown = [r \in Roads |-> {}]
    /\ startedAt = [r \in Roads |-> 0]
    /\ completedAt = [r \in Roads |-> 0]
    /\ delayMs = [r \in Roads |-> 0]
    /\ assembled = [r \in Roads |-> [done |-> FALSE, line |-> NoLine]]

\* The state at line 381, before the first road, with any files in the
\* cache directory.  The clock has some value of a present-day Date.now().
InitRun ==
    /\ GeomIdle
    /\ rpc = "loop"
    /\ index = 1
    /\ cacheFile \in [Roads -> CacheFiles]
    /\ cacheFile0 = cacheFile
    /\ roadCache = [r \in Roads |-> NoFeature]
    /\ lastDownloadAt = 0
    /\ now = 1000000
    /\ segments = <<>>
    /\ seenWayIds = {}
    /\ outputWritten = FALSE
    /\ fetchCalls = [r \in Roads |-> 0]
    /\ cacheWrites = [r \in Roads |-> 0]
    /\ thrown = [r \in Roads |-> {}]
    /\ startedAt = [r \in Roads |-> 0]
    /\ completedAt = [r \in Roads |-> 0]
    /\ delayMs = [r \in Roads |-> 0]
    /\ assembled = [r \in Roads |-> [done |-> FALSE, line |-> NoLine]]
    /\ asm = AsmStart(<<>>)
    /\ FetchIdle

\* lines 383-386 and 396-399: the road is in the cache.  (The test of line
\* 384 never holds: uniqueRoads has no duplicates, so roadCache has no
\* entry for the road of the current iteration.)
CacheHit ==
    /\ rpc = "loop"
    /\ index <= NumRoads
    /\ ~roadCache[index].present
    /\ ReadRoadCache(cacheFile[index]).present
    /\ \E d \in ReadDurations : now' = now + d
    /\ roadCache' = [roadCache EXCEPT ![index] = ReadRoadCache(cacheFile[index])]
    /\ index' = index + 1
    /\ UNCHANGED <<rpc, cacheFile, cacheFile0, lastDownloadAt, segments,
                   seenWayIds, outputWritten, fetchCalls, cacheWrites, thrown,
                   startedAt, completedAt, delayMs, assembled>>

\* lines 383-392: the road is not in the cache; the delay, then fetchRoad
\* is called (lines 325-328).
CacheMiss ==
    /\ rpc = "loop"
    /\ index <= NumRoads
    /\ ~roadCache[index].present
    /\ ~ReadRoadCache(cacheFile[index]).present
    /\ \E d \in ReadDurations :
        LET clock == now + d
            delay == DownloadDelay(lastDownloadAt, clock)
        IN  /\ now' = clock + delay
            /\ delayMs' = [delayMs EXCEPT ![index] = delay]
            /\ startedAt' = [startedAt EXCEPT ![index] = clock + delay]
    /\ rpc' = "relation"
    /\ segments' = <<>>
    /\ seenWayIds' = {}
    /\ UNCHANGED <<index, cacheFile, cacheFile0, roadCache, lastDownloadAt,
                   outputWritten, fetchCalls, cacheWrites, thrown, completedAt,
                   assembled>>

\* lines 329-339: the relation query returns a payload.
RelationReturns ==
    /\ rpc = "relation"
    /\ \E payload \in Payloads :
        \E c \in {CollectWays(segments, seenWayIds, payload)} :
            /\ segments' = c.segments
            /\ seenWayIds' = c.seenWayIds
    /\ \E d \in FetchDurations : now' = now + d
    /\ fetchCalls' = [fetchCalls EXCEPT ![index] = @ + 1]
    /\ rpc' = "fallback"
    /\ UNCHANGED <<index, cacheFile, cacheFile0, roadCache, lastDownloadAt,
                   outputWritten, cacheWrites, thrown, startedAt, completedAt,
                   delayMs, assembled>>

\* lines 329-330, 340-342: the relation query throws; the catch logs it.
RelationThrows ==
    /\ rpc = "relation"
    /\ \E d \in FetchDurations : now' = now + d
    /\ fetchCalls' = [fetchCalls EXCEPT ![index] = @ + 1]
    /\ thrown' = [thrown EXCEPT ![index] = @ \cup {"relation"}]
    /\ rpc' = "fallback"
    /\ UNCHANGED <<index, cacheFile, cacheFile0, roadCache, lastDownloadAt,
                   segments, seenWayIds, outputWritten, cacheWrites, startedAt,
                   completedAt, delayMs, assembled>>

\* The end of fetchRoad and of the loop body for the ways segs: lines
\* 360-363, then either the throw, which nothing catches, or lines 365-378
\* and 393-399.
FinishRoad(segs, clock) ==
    \E geometryResult \in {BuildLineFromSegments(segs)} :
        /\ assembled' = [assembled EXCEPT ![index] =
                            [done |-> TRUE, line |-> geometryResult]]
        /\ now' = clock
        /\ IF GeometryInvalid(geometryResult)
           THEN /\ rpc' = "aborted"
                /\ UNCHANGED <<index, cacheFile, roadCache, lastDownloadAt,
                               cacheWrites, completedAt>>
           ELSE LET feature == [present |-> TRUE, cacheVersion |-> RoadCacheVersion,
                                coords |-> geometryResult.coords,
                                lengthMm |-> geometryResult.lengthMm]
                IN  /\ rpc' = "loop"
                    /\ lastDownloadAt' = clock
                    /\ completedAt' = [completedAt EXCEPT ![index] = clock]
                    /\ cacheFile' = [cacheFile EXCEPT ![index] = SaveRoadCache(feature)]
                    /\ cacheWrites' = [cacheWrites EXCEPT ![index] = @ + 1]
                    /\ roadCache' = [roadCache EXCEPT ![index] = feature]
                    /\ index' = index + 1

\* lines 344-355, then the end of fetchRoad: the fallback query returns.
FallbackReturns ==
    /\ rpc = "fallback"
    /\ \E payload \in Payloads, d \in FetchDurations :
        \E c \in {CollectWays(segments, seenWayIds, payload)} :
            /\ segments' = c.segments
            /\ seenWayIds' = c.seenWayIds
            /\ FinishRoad(c.segments, now + d)
    /\ fetchCalls' = [fetchCalls EXCEPT ![index] = @ + 1]
    /\ UNCHANGED <<cacheFile0, outputWritten, thrown, startedAt, delayMs>>

\* A fallback query whose throw is not caught: the run aborts at once.
FallbackThrowsFailFast ==
    /\ rpc = "fallback"
    /\ \E d \in FetchDurations : now' = now + d
    /\ fetchCalls' = [fetchCalls EXCEPT ![index] = @ + 1]
    /\ thrown' = [thrown EXCEPT ![index] = @ \cup {"fallback"}]
    /\ rpc' = "aborted"
    /\ UNCHANGED <<index, cacheFile, cacheFile0, roadCache, lastDownloadAt,
                   segments, seenWayIds, outputWritten, cacheWrites, startedAt,
                   completedAt, delayMs, assembled>>

\* lines 344-346, 356-358, then the end of fetchRoad: the fallback query
\* throws; the catch logs it.
FallbackThrows ==
    /\ rpc = "fallback"
    /\ \E d \in FetchDurations : FinishRoad(segments, now + d)
    /\ fetchCalls' = [fetchCalls EXCEPT ![index] = @ + 1]
    /\ thrown' = [thrown EXCEPT ![index] = @ \cup {"fallback"}]
    /\ UNCHANGED <<cacheFile0, segments, seenWayIds, outputWritten, startedAt,
                   delayMs>>

\* lines 402-502: after the loop every segment is sliced from the line of
\* its road (a road with no line throws, line 448) and the output written.
WriteOutput ==
    /\ rpc = "loop"
    /\ index > NumRoads
    /\ IF \A r \in Roads : roadCache[r].present
       THEN rpc' = "written" /\ outputWritten' = TRUE
       ELSE rpc' = "aborted" /\ UNCHANGED outputWritten
    /\ UNCHANGED <<index, cacheFile, cacheFile0, roadCache, lastDownloadAt, now,
                   segments, seenWayIds, fetchCalls, cacheWrites, thrown,
                   startedAt, completedAt, delayMs, assembled>>

Next ==
    \/ CacheHit /\ UNCHANGED <<waysVars, geomVars, fetchVars>>
    \/ CacheMiss /\ UNCHANGED <<waysVars, geomVars, fetchVars>>
    \/ RelationReturns /\ UNCHANGED <<waysVars, geomVars, fetchVars>>
    \/ RelationThrows /\ UNCHANGED <<waysVars, geomVars, fetchVars>>
    \/ FallbackReturns /\ UNCHANGED <<waysVars, geomVars, fetchVars>>
    \/ FallbackThrows /\ UNCHANGED <<waysVars, geomVars, fetchVars>>
    \/ WriteOutput /\ UNCHANGED <<waysVars, geomVars, fetchVars>>

Spec == InitRun /\ [][Next]_vars

\* One call of fetchOverpass, as fetchRoad makes it.
InitFetch ==
    /\ FetchEntry
    /\ asm = AsmStart(<<>>)
    /\ GeomIdle
    /\ RunIdle

NextFetch ==
    \/ TransportFailover /\ UNCHANGED <<waysVars, geomVars, runVars>>
    \/ TransportThrow /\ UNCHANGED <<waysVars, geomVars, runVars>>
    \/ TransportRetry /\ UNCHANGED <<waysVars, geomVars, runVars>>
    \/ RateLimited /\ UNCHANGED <<waysVars, geomVars, runVars>>
    \/ ServerErrorRetry /\ UNCHANGED <<waysVars, geomVars, runVars>>
    \/ ServerErrorThrow /\ UNCHANGED <<waysVars, geomVars, runVars>>
    \/ StatusThrow /\ UNCHANGED <<waysVars, geomVars, runVars>>
    \/ DecodeThrow /\ UNCHANGED <<waysVars, geomVars, runVars>>
    \/ DecodeRetry /\ UNCHANGED <<waysVars, geomVars, runVars>>
    \/ ReturnPayload /\ UNCHANGED <<waysVars, geomVars, runVars>>

SpecFetch == InitFetch /\ [][NextFetch]_vars

---------------------------------------------------------------------------
(* Properties of the run.                                                  *)

\* The run is past the end of fetchRoad for road r, one way or the other.
Settled(r) == r < index \/ (r = index /\ rpc = "aborted")

\* No step of the loop has touched road r.
Untouched(r) ==
    /\ fetchCalls[r] = 0
    /\ cacheWrites[r] = 0
    /\ ~roadCache[r].present
    /\ cacheFile[r] = cacheFile0[r]
    /\ startedAt[r] = 0

\* C1, as claimed: once a fetchOverpass call made for a road has thrown,
\* the run goes to no later road and writes no output.
C1_AsClaimed ==
    \A r \in Roads :
        thrown[r] # {} => (index <= r /\ ~outputWritten)

\* C1, amended: once both fetchOverpass calls made for a road (the relation
\* query and the fallback query) have thrown, the run has aborted: the road
\* has no line and no cache file written, no later road is processed and
\* the output is not written.  After one thrown call alone fetchRoad still
\* assembles the ways of the other call, and the run aborts exactly when
\* they give no line.
C1_BothFetchesFail ==
    \A r \in Roads :
        /\ thrown[r] = {"relation", "fallback"} =>
            /\ rpc = "aborted"
            /\ index = r
            /\ ~outputWritten
            /\ ~roadCache[r].present
            /\ cacheWrites[r] = 0
            /\ \A later \in Roads : later > r => Untouched(later)
        /\ (Cardinality(thrown[r]) = 1 /\ Settled(r)) =>
            /\ assembled[r].done
            /\ (rpc = "aborted" /\ index = r) <=> assembled[r].line.isNull

\* Both queries of the second road threw, after the first road was
\* downloaded: the run has aborted.
C1_Witness ==
    /\ NumRoads >= 2
    /\ thrown[2] = {"relation", "fallback"}
    /\ completedAt[1] # 0
    /\ rpc = "aborted"

\* The file holds an entry whose cacheVersion is the current version.
HasCurrentEntry(file) ==
    file.kind = "json" /\ file.hasVersion /\ file.cacheVersion = 4

\* C6: a road is requested from the service only when its cache file, as
\* the run found it, holds no entry of the current version (missing, not
\* JSON, without a version or of another version), and every such road the
\* loop has passed was requested; for a road with a current entry no
\* request is made, the file is not written and the cached entry is the
\* road's feature.
C6_FetchIffNoCurrentEntry ==
    \A r \in Roads :
        /\ (fetchCalls[r] > 0 \/ startedAt[r] # 0) => ~HasCurrentEntry(cacheFile0[r])
        /\ (r < index /\ ~HasCurrentEntry(cacheFile0[r])) => fetchCalls[r] > 0
        /\ HasCurrentEntry(cacheFile0[r]) =>
            /\ fetchCalls[r] = 0
            /\ cacheWrites[r] = 0
            /\ cacheFile[r] = cacheFile0[r]
            /\ r < index => (roadCache[r].present
                              /\ roadCache[r].coords = cacheFile0[r].coords)

\* A run over a road found in the cache at the current version and a road
\* whose file has the previous version, which has been downloaded.
C6_Witness ==
    /\ rpc = "written"
    /\ \E r \in Roads : HasCurrentEntry(cacheFile0[r]) /\ fetchCalls[r] = 0
    /\ \E r \in Roads :
        /\ cacheFile0[r].kind = "json"
        /\ cacheFile0[r].hasVersion
        /\ ~HasCurrentEntry(cacheFile0[r])
        /\ fetchCalls[r] = 2
        /\ cacheWrites[r] = 1

\* C7: a download begins at least 6 s after every earlier successful
\* download of the run was completed, and no wait is made for a road served
\* from the cache.
C7_MinDownloadDelay ==
    /\ \A r1, r2 \in Roads :
        (r1 < r2 /\ completedAt[r1] # 0 /\ startedAt[r2] # 0) =>
            startedAt[r2] - completedAt[r1] >= 6000
    /\ \A r \in Roads :
        (r < index /\ fetchCalls[r] = 0) => (delayMs[r] = 0 /\ startedAt[r] = 0)

\* Two successive downloads, the second after a wait that the delay made
\* necessary.
C7_Witness ==
    \E r1, r2 \in Roads :
        /\ r1 < r2
        /\ completedAt[r1] # 0
        /\ completedAt[r2] # 0
        /\ delayMs[r2] > 0
        /\ startedAt[r2] - completedAt[r1] = 6000

\* C8: the output is written only when every road has a line of at least
\* two coordinates; when buildLineFromSegments gives no line, or one of
\* fewer than two coordinates, for a road, the run has aborted at that road
\* and no output is written; an aborted run has written no output.
C8_NoPartialOutput ==
    /\ outputWritten =>
        \A r \in Roads : roadCache[r].present /\ Len(roadCache[r].coords) >= 2
    /\ \A r \in Roads :
        (assembled[r].done
            /\ (assembled[r].line.isNull \/ Len(assembled[r].line.coords) < 2)) =>
            /\ rpc = "aborted"
            /\ index = r
            /\ ~outputWritten
            /\ ~roadCache[r].present
    /\ rpc = "aborted" => ~outputWritten

\* The assembly of the last road gave no line, after the roads before it
\* were loaded: the run has aborted without output.
C8_Witness ==
    /\ rpc = "aborted"
    /\ index = NumRoads
    /\ assembled[NumRoads].done
    /\ assembled[NumRoads].line.isNull
    /\ \A r \in Roads : r < NumRoads => roadCache[r].present
    /\ ~outputWritten

---------------------------------------------------------------------------
(* Properties of fetchOverpass.                                            *)

\* C2: while every request of a fetch has raised a transport exception, the
\* attempt count is at most 5; the fetch fails only at attempt 5, with the
\* network error; and every retry (a new attempt) comes after a wait of
\* min(30 s, attempt x 4 s) and goes to the first endpoint.
C2_TransportBudget ==
    (onlyExceptions /\ requests > 0) =>
        /\ attempt <= 5
        /\ fpc # "returned"
        /\ fpc = "thrown" =>
            (fetchError = "network" /\ attempt = 5 /\ reqAttempt = 5)
        /\ (fpc = "call" /\ attempt # reqAttempt) =>
            /\ attempt = reqAttempt + 1
            /\ waitMs = Min(30000, reqAttempt * 4000)
            /\ endpointIndex = 0
        /\ (fpc = "call" /\ attempt = reqAttempt) => waitMs = NoWait

\* Every request raised, and the fetch has failed after the fifth attempt:
\* five attempts at each of the endpoints.
C2_Witness ==
    /\ onlyExceptions
    /\ fpc = "thrown"
    /\ fetchError = "network"
    /\ requests = 5 * NumEndpoints

\* C3: after a 429, at any attempt count and endpoint index, fetchOverpass
\* has waited and is about to send another request; it has not thrown.
C3_RateLimitNeverFails ==
    response = "429" =>
        /\ fpc = "call"
        /\ fetchError = "none"
        /\ waitMs # NoWait
        /\ attempt = reqAttempt + 1

\* A 429 met past the retry budget of the other failures, away from the
\* first endpoint.
C3_Witness ==
    /\ response = "429"
    /\ reqAttempt > 5
    /\ reqEndpoint > NumEndpoints - 1
    /\ fpc = "call"

\* C4: after a 5xx met with attempt < 5, fetchOverpass has waited
\* min(30 s, attempt x 5 s) and is about to send a request with attempt + 1
\* and the next endpoint index; after a 5xx met with attempt >= 5 it has
\* thrown.
C4_ServerErrorRetry ==
    response = "5xx" =>
        IF reqAttempt < 5
        THEN /\ fpc = "call"
             /\ waitMs = Min(30000, reqAttempt * 5000)
             /\ attempt = reqAttempt + 1
             /\ endpointIndex = reqEndpoint + 1
        ELSE /\ fpc = "thrown"
             /\ fetchError # "none"

\* The last 5xx that is still retried: attempt 4, a wait of 20 s.
C4_Witness ==
    /\ response = "5xx"
    /\ reqAttempt = 4
    /\ fpc = "call"
    /\ waitMs = 20000

\* C5: after a body that failed to decode, fetchOverpass has either waited
\* min(30 s, attempt x 4 s), the wait of a transport exception, and is about
\* to send a request with attempt + 1, or it has thrown, and then the
\* attempt count was at least 5 and the endpoint index at or past the last
\* endpoint.
C5_DecodeRetry ==
    response = "undecodable" =>
        /\ fpc \in {"call", "thrown"}
        /\ fpc = "call" =>
            /\ waitMs = Min(30000, reqAttempt * 4000)
            /\ waitMs = TransportWaitMs(reqAttempt)
            /\ attempt = reqAttempt + 1
        /\ fpc = "thrown" =>
            /\ reqAttempt >= 5
            /\ reqEndpoint >= NumEndpoints - 1

\* A body that failed to decode at attempt 5 is retried all the same,
\* because it came from the first endpoint.
C5_Witness ==
    /\ response = "undecodable"
    /\ reqAttempt = 5
    /\ reqEndpoint = 0
    /\ fpc = "call"
    /\ waitMs = 20000

\* C23: after a non-OK status that is neither 429 nor 5xx, at any attempt
\* count and endpoint index, fetchOverpass has thrown the status error,
\* with no wait and with the attempt count and the endpoint index of the
\* request: no retry, no failover.
C23_StatusThrows ==
    response = "status" =>
        /\ fpc = "thrown"
        /\ fetchError = "status"
        /\ waitMs = NoWait
        /\ attempt = reqAttempt
        /\ endpointIndex = reqEndpoint

\* A 404 met at the third attempt, the endpoint index past the list.
C23_Witness ==
    /\ response = "status"
    /\ reqAttempt = 3
    /\ reqEndpoint = 2
    /\ fpc = "thrown"

\* The requests of a call that were not answered with 429.
OtherRequests == requests - limited

EndpointOf(e) == e % NumEndpoints

\* C15: after a transport exception from an endpoint that is not the last
\* of the list, the next request goes to the next endpoint at once, with
\* no wait and the same attempt count; a wait follows a transport
\* exception only when the last endpoint has failed, and the request after
\* it has attempt + 1 and goes to the first endpoint.
C15_Failover ==
    response = "exception" =>
        /\ EndpointOf(reqEndpoint) < NumEndpoints - 1 =>
            /\ fpc = "call"
            /\ waitMs = NoWait
            /\ attempt = reqAttempt
            /\ EndpointOf(endpointIndex) = EndpointOf(reqEndpoint) + 1
        /\ waitMs # NoWait =>
            /\ EndpointOf(reqEndpoint) = NumEndpoints - 1
            /\ fpc = "call"
            /\ attempt = reqAttempt + 1
            /\ EndpointOf(endpointIndex) = 0

\* C16, as stated: the wait after a 429 is min(60 s, w x attempt) with w
\* the number of seconds of the retry-after header, and 10 s only when the
\* header is absent.
C16_AsClaimed ==
    (response = "429" /\ retryAfter.kind # "text") =>
        waitMs = Min(60000,
                     (IF retryAfter.kind = "absent" THEN 10 ELSE retryAfter.n)
                        * 1000 * reqAttempt)

\* The number of seconds the wait after a 429 is based on.
BaseSeconds(header) ==
    IF header.kind = "int" /\ header.n # 0 THEN header.n ELSE 10

\* C16, amended: the wait after a 429 is min(60 s, w x attempt), where w is
\* the number of seconds of the retry-after header, and 10 s when the
\* header is absent, is not a number or is 0; the wait never exceeds 60 s,
\* and the retry has attempt + 1 and the next endpoint index.
C16_RateLimitWait ==
    response = "429" =>
        /\ waitMs = Min(60000, BaseSeconds(retryAfter) * 1000 * reqAttempt)
        /\ waitMs <= 60000
        /\ fpc = "call"
        /\ attempt = reqAttempt + 1
        /\ endpointIndex = reqEndpoint + 1

\* A 429 with the header "0" at the second attempt: the wait is 20 s.
C16_Witness ==
    /\ response = "429"
    /\ retryAfter = [kind |-> "int", n |-> 0]
    /\ reqAttempt = 2
    /\ waitMs = 20000

---------------------------------------------------------------------------
(* The inputs of the assembler.  All points lie on the meridian 47 W.      *)
(* Latitudes 10 and 14 round to the same key and differ as coordinates;    *)
(* 57 is a point used only inside a way (a closed way), and one way passes *)
(* through an endpoint of other ways.                                     *)

MaxWays == 3

EndPts == {Pt(0), Pt(10), Pt(14), Pt(20)}

WayPool ==
    ({<<a, b>> : a \in EndPts, b \in EndPts} \ {<<a, a>> : a \in EndPts})
        \cup {<<Pt(0), Pt(57), Pt(0)>>, <<Pt(20), Pt(10), Pt(0)>>}

WayInputs == UNION {[1..n -> WayPool] : n \in 0..MaxWays}

InitWays ==
    /\ asm \in {AsmStart(w) : w \in WayInputs}
    /\ GeomIdle
    /\ FetchIdle
    /\ RunIdle

WayStep ==
    /\ asm.pc # "done"
    /\ asm' = AsmStep(asm)
    /\ UNCHANGED <<geomVars, fetchVars, runVars>>

NextWays == WayStep

SpecWays == InitWays /\ [][NextWays]_vars

---------------------------------------------------------------------------
(* Properties of buildComponentsFromWays.                                  *)

AsmDone == asm.pc = "done"

NWays == Len(asm.segmentsCoords)

\* The way ends (way, atStart) whose coordinate has the key k.
EndsAt(k) ==
    {e \in (1..NWays) \X BOOLEAN :
        LET c == asm.segmentsCoords[e[1]]
        IN  ToKey(IF e[2] THEN c[1] ELSE c[Len(c)]) = k}

EndKeys(w) == {ToKey(w[1]), ToKey(w[Len(w)])}

\* seg is the way w up to the rounding of its two end coordinates.
Matches(seg, w) ==
    /\ Len(seg) = Len(w)
    /\ \A q \in 1..Len(w) :
        IF q = 1 \/ q = Len(w) THEN ApproxEqual(seg[q], w[q]) ELSE seg[q] = w[q]

\* The position in a chain of the first coordinate of its j-th piece, when
\* each piece after the first shares one coordinate with its predecessor.
RECURSIVE Offset(_, _)
Offset(pieces, j) ==
    IF j = 1 THEN 1
    ELSE Offset(pieces, j - 1) + Len(asm.segmentsCoords[pieces[j - 1]]) - 1

\* The chain holds, piece by piece, the coordinates of its ways, in one
\* direction or the other, consecutive pieces overlapping in one coordinate.
ChainCovers(line, pieces) ==
    /\ Len(line) = SumLen([j \in 1..Len(pieces) |-> asm.segmentsCoords[pieces[j]]])
                     - (Len(pieces) - 1)
    /\ \A j \in 1..Len(pieces) :
        LET w == asm.segmentsCoords[pieces[j]]
            seg == SubSeq(line, Offset(pieces, j), Offset(pieces, j) + Len(w) - 1)
        IN  Matches(seg, w) \/ Matches(seg, Reverse(w))

\* C9: buildComponentsFromWays terminates (the number of loop iterations is
\* at most 3n+1 for n ways, and every iteration before the return is
\* followed by another), no way is marked used twice, and at the return
\* every way has been marked used exactly once and is a piece of exactly
\* one chain, each chain holds the coordinates of its ways with one
\* coordinate per join, so that the chains hold in total the coordinates of
\* the ways minus one per join.
C9_EachWayOnce ==
    /\ asm.steps <= 3 * NWays + 1
    /\ \A k \in 1..NWays : asm.marks[k] = (IF asm.used[k] THEN 1 ELSE 0)
    /\ AsmDone =>
        /\ \A k \in 1..NWays :
            /\ asm.marks[k] = 1
            /\ Cardinality({q \in 1..Len(Flatten(asm.members)) :
                              Flatten(asm.members)[q] = k}) = 1
        /\ Len(asm.members) = Len(asm.assembledLines)
        /\ \A c \in 1..Len(asm.assembledLines) :
            ChainCovers(asm.assembledLines[c], asm.members[c])
        /\ SumLen(asm.assembledLines)
             = SumLen(asm.segmentsCoords) - (NWays - Len(asm.assembledLines))

\* Three ways, assembled into two chains after one join at a rounded
\* endpoint (latitudes 10 and 14).
C9_Witness ==
    /\ AsmDone
    /\ NWays = 3
    /\ Len(asm.assembledLines) = 2
    /\ \E c \in 1..2 : asm.assembledLines[c] = <<Pt(0), Pt(14), Pt(20)>>

\* The two ways i and j lie side by side in one chain, joined where the
\* key k is, and the chain has one coordinate for the join.
JoinedAt(i, j, k) ==
    \E c \in 1..Len(asm.members) :
        LET pieces == asm.members[c]
            line == asm.assembledLines[c]
        IN  \E a \in 1..(Len(pieces) - 1) :
                /\ {pieces[a], pieces[a + 1]} = {i, j}
                /\ ToKey(line[Offset(pieces, a + 1)]) = k
                /\ ChainCovers(line, pieces)

\* The ways i and j are the first and the last piece of one chain, whose
\* two ends both have the key k: the chain closes a ring at k.
ClosedAt(i, j, k) ==
    \E c \in 1..Len(asm.members) :
        LET pieces == asm.members[c]
            line == asm.assembledLines[c]
        IN  /\ {pieces[1], Last(pieces)} = {i, j}
            /\ ToKey(line[1]) = k
            /\ ToKey(Last(line)) = k
            /\ ChainCovers(line, pieces)

ScenarioAB == <<<<Pt(0), Pt(10)>>, <<Pt(10), Pt(20)>>>>

\* C10, as claimed: every two ways that share an endpoint key are in one
\* chain, and that chain has exactly one coordinate with that key.
C10_AsClaimed ==
    AsmDone =>
        \A i, j \in 1..NWays :
            \A k \in EndKeys(asm.segmentsCoords[i]) \cap EndKeys(asm.segmentsCoords[j]) :
                i # j =>
                    \E c \in 1..Len(asm.members) :
                        /\ \E a, b \in 1..Len(asm.members[c]) :
                              asm.members[c][a] = i /\ asm.members[c][b] = j
                        /\ Cardinality({q \in 1..Len(asm.assembledLines[c]) :
                              ToKey(asm.assembledLines[c][q]) = k}) = 1

\* C10, amended: two ways that share an endpoint key which is the key of no
\* other way end are pieces of one chain; they are consecutive pieces joined
\* at that endpoint, for which the chain holds one coordinate, unless the
\* ways close a ring there, and then they are the first and the last piece
\* and the chain begins and ends at that endpoint.  The ways
\* [(0,0),(1,1)] and [(1,1),(2,2)] give the single chain
\* [(0,0),(1,1),(2,2)] (here with latitudes 0, 10, 20).
C10_PairJoined ==
    AsmDone =>
        /\ \A i, j \in 1..NWays :
            \A k \in EndKeys(asm.segmentsCoords[i]) \cap EndKeys(asm.segmentsCoords[j]) :
                (i # j /\ Cardinality(EndsAt(k)) = 2) =>
                    (JoinedAt(i, j, k) \/ ClosedAt(i, j, k))
        /\ asm.segmentsCoords = ScenarioAB
             => asm.assembledLines = <<<<Pt(0), Pt(10), Pt(20)>>>>

\* The scenario of the claim has been assembled.
C10_Witness ==
    /\ AsmDone
    /\ asm.segmentsCoords = ScenarioAB
    /\ asm.members = <<<<1, 2>>>>

\* The chains, by number, that have the way k as a piece.
ChainsOf(k) ==
    {c \in 1..Len(asm.members) :
        \E a \in 1..Len(asm.members[c]) : asm.members[c][a] = k}

\* The ways with an end whose coordinate has the key k.
WaysEndingAt(k) == {e[1] : e \in EndsAt(k)}

\* C22: the chains returned by buildComponentsFromWays are maximal, for
\* every input collection in every order of the ways: no endpoint of one
\* chain has the rounded key of an endpoint of a different chain.  It is so
\* because an extension stops at a key only when the adjacency list of that
\* key is empty: every way that ends at the key of a chain's endpoint is a
\* piece of that chain or of a chain returned before it (where a branch
\* leaves the key inside the earlier chain).
C22_MaximalChains ==
    AsmDone =>
        /\ \A c, d \in 1..Len(asm.assembledLines) :
              c # d => EndKeys(asm.assembledLines[c])
                         \cap EndKeys(asm.assembledLines[d]) = {}
        /\ \A c \in 1..Len(asm.assembledLines) :
              \A k \in EndKeys(asm.assembledLines[c]) :
                  /\ asm.adjacency[k] = <<>>
                  /\ \A w \in WaysEndingAt(k) : ChainsOf(w) \subseteq 1..c

\* A branch: three ways end at the rounded key of 10 and 14.  The first
\* chain passes through it and the second chain ends there, at a key that
\* is no endpoint of the first.
C22_Witness ==
    /\ AsmDone
    /\ asm.segmentsCoords
         = <<<<Pt(0), Pt(10)>>, <<Pt(14), Pt(20)>>, <<Pt(10), Pt(0)>>>>
    /\ Len(asm.assembledLines) = 2
    /\ asm.members = <<<<1, 3>>, <<2>>>>
    /\ Cardinality(WaysEndingAt(ToKey(Pt(10)))) = 3

---------------------------------------------------------------------------
(* The inputs of the stitcher: chains along the meridian, given by the     *)
(* kilometre marks of their coordinates (8993 micro-degrees of latitude    *)
(* are one kilometre, to the nearest micro-degree).  [0,10] is the longest *)
(* chain; [30,33] lies 20 km from its tail and [24,20] bridges the gap;    *)
(* [8,12] has both ends 2 km from that tail; [11,12] and [-2,-1] lie 1 km  *)
(* from its tail and from its head; [10,13] starts at its tail.            *)

MaxComponents == 3

KmPt(k) == Pt(k * 8993)

ChainPool ==
    { <<KmPt(0), KmPt(10)>>, <<KmPt(8), KmPt(12)>>, <<KmPt(11), KmPt(12)>>,
      <<KmPt(-2), KmPt(-1)>>, <<KmPt(10), KmPt(13)>>, <<KmPt(14), KmPt(12)>>,
      <<KmPt(24), KmPt(20)>>, <<KmPt(30), KmPt(33)>> }

StitchInputs == UNION {[1..n -> ChainPool] : n \in 0..MaxComponents}

InitStitch ==
    /\ stc \in {StitchStart(c) : c \in StitchInputs}
    /\ asm = AsmStart(<<>>)
    /\ RelIdle
    /\ SlcIdle
    /\ FetchIdle
    /\ RunIdle

StitchAct ==
    /\ stc.pc = "loop"
    /\ stc' = StitchStep(stc)
    /\ UNCHANGED <<asm, rel, slc, fetchVars, runVars>>

NextStitch == StitchAct

SpecStitch == InitStitch /\ [][NextStitch]_vars

---------------------------------------------------------------------------
(* Properties of stitchComponents.                                         *)

StitchDone == stc.pc = "done"

\* The end of the spliced chain that met the accumulator, and the end of
\* the accumulator it met.
JoinDist(s) ==
    LET seg == s.remaining[s.idx].coords
        near == IF s.attachHead THEN s.merged[1] ELSE Last(s.merged)
        joined == IF s.attachHead = s.flip THEN seg[1] ELSE Last(seg)
    IN  DistanceMm(near, joined)

\* The distance of each attachment of the chain seg to the accumulator, in
\* the order tail-start, tail-end, head-end, head-start.
AttachDist(merged, seg, a) ==
    CASE a = 1 -> DistanceMm(Last(merged), seg[1])
      [] a = 2 -> DistanceMm(Last(merged), Last(seg))
      [] a = 3 -> DistanceMm(merged[1], Last(seg))
      [] a = 4 -> DistanceMm(merged[1], seg[1])

AttachNo(s) ==
    IF s.attachHead THEN (IF s.flip THEN 4 ELSE 3) ELSE (IF s.flip THEN 2 ELSE 1)

Keys(coords) == [k \in 1..Len(coords) |-> ToKey(coords[k])]

\* The chains of parts laid end to end, each in its orientation, with one
\* coordinate for two coincident ends that meet.
RECURSIVE JoinParts(_, _)
JoinParts(components, parts) ==
    IF parts = <<>> THEN <<>>
    ELSE LET rest == JoinParts(components, Front(parts))
             p == Last(parts)
             c == IF p.flip THEN Reverse(components[p.id]) ELSE components[p.id]
         IN  IF rest # <<>> /\ ApproxEqual(Last(rest), c[1])
             THEN rest \o Tail(c)
             ELSE rest \o c

PartIds == {stc.parts[k].id : k \in 1..Len(stc.parts)}

RemainingIds == {stc.remaining[k].id : k \in 1..Len(stc.remaining)}

FifteenKm == 15 * 1000000

\* C11: every splice joins two ends at most 15 km apart; when the loop has
\* stopped with chains remaining, every end of every remaining chain is more
\* than 15 km from both ends of the line, and the returned line is made of
\* the longest chain and the spliced chains only, no remaining chain being
\* part of it.  Two components whose ends are more than 15 km apart give
\* the longer one alone.
C11_NoWideSplice ==
    /\ \A k \in 1..Len(stc.splices) : JoinDist(stc.splices[k]) <= FifteenKm
    /\ Keys(StitchResult(stc).coords) = Keys(JoinParts(stc.components, stc.parts))
    /\ PartIds \cap RemainingIds = {}
    /\ Len(stc.parts) + Len(stc.remaining) = Len(stc.components)
    /\ (StitchDone /\ stc.remaining # <<>>) =>
        \A r \in 1..Len(stc.remaining) : \A a \in 1..4 :
            AttachDist(stc.merged, stc.remaining[r].coords, a) > FifteenKm
    /\ (StitchDone /\ Len(stc.components) = 2) =>
        \A i, j \in 1..2 :
            (/\ LengthMm(stc.components[i]) > LengthMm(stc.components[j])
             /\ \A a \in 1..4 :
                  AttachDist(stc.components[i], stc.components[j], a) > FifteenKm)
                => StitchResult(stc).coords = stc.components[i]

\* The chain [14,12] has been spliced, reversed, onto [0,10], and [30,33],
\* 16 km further, has been left out.
C11_Witness ==
    /\ StitchDone
    /\ stc.components = <<<<KmPt(30), KmPt(33)>>, <<KmPt(14), KmPt(12)>>,
                          <<KmPt(0), KmPt(10)>>>>
    /\ StitchResult(stc).coords = <<KmPt(0), KmPt(10), KmPt(12), KmPt(14)>>
    /\ Len(stc.remaining) = 1
    /\ stc.stopDist > FifteenKm

\* The accumulator as it was before the first splice.
FirstMerged == IF stc.splices = <<>> THEN stc.merged ELSE stc.splices[1].merged

\* The chains in the order of the sort: longer first, and of two chains of
\* one length the one that came first in the input.
InSortedOrder(chains) ==
    \A i, j \in 1..Len(chains) :
        i < j => \/ chains[i].lengthMm > chains[j].lengthMm
                 \/ /\ chains[i].lengthMm = chains[j].lengthMm
                    /\ chains[i].id < chains[j].id

\* C18: the accumulator starts as a longest chain, and every splice takes
\* the chain and the attachment whose distance is the least over all the
\* remaining chains and the four attachments; of several at that distance
\* it takes the first, the remaining chains being in the order of the sort
\* and the attachments in the order tail-start, tail-end, head-end,
\* head-start.
C18_ClosestFirst ==
    /\ stc.components # <<>> =>
        /\ \E c \in 1..Len(stc.components) : FirstMerged = stc.components[c]
        /\ \A c \in 1..Len(stc.components) :
              LengthMm(FirstMerged) >= LengthMm(stc.components[c])
    /\ \A k \in 1..Len(stc.splices) :
        LET s == stc.splices[k]
        IN  /\ InSortedOrder(s.remaining)
            /\ \A r \in 1..Len(s.remaining) : \A a \in 1..4 :
                 LET d == AttachDist(s.merged, s.remaining[r].coords, a)
                 IN  /\ d >= JoinDist(s)
                     /\ (r < s.idx \/ (r = s.idx /\ a < AttachNo(s)))
                          => d > JoinDist(s)

\* A splice was made where another attachment of the same chain and an
\* attachment of a later chain were as close as the one taken.
C18_Witness ==
    \E k \in 1..Len(stc.splices) :
        LET s == stc.splices[k]
        IN  /\ \E a \in 1..4 :
                /\ a > AttachNo(s)
                /\ AttachDist(s.merged, s.remaining[s.idx].coords, a) = JoinDist(s)
            /\ \E r \in 1..Len(s.remaining) : \E a \in 1..4 :
                /\ r > s.idx
                /\ AttachDist(s.merged, s.remaining[r].coords, a) = JoinDist(s)

---------------------------------------------------------------------------
(* The inputs of buildLineFromRelation.  Way 1 is [0,10]; way 2 starts at  *)
(* latitude 14, which has the key of 10; way 3 has its far end first; way  *)
(* 4 has both ends equally far from latitude 20; way 5 has one coordinate  *)
(* and way 6 is not in waysById.                                           *)

MaxMembers == 3

RelWays ==
    [ref \in 1..6 |->
        CASE ref = 1 -> [present |-> TRUE, coords |-> <<Pt(0), Pt(10)>>]
          [] ref = 2 -> [present |-> TRUE, coords |-> <<Pt(14), Pt(20)>>]
          [] ref = 3 -> [present |-> TRUE, coords |-> <<Pt(30), Pt(20)>>]
          [] ref = 4 -> [present |-> TRUE, coords |-> <<Pt(10), Pt(30)>>]
          [] ref = 5 -> [present |-> TRUE, coords |-> <<Pt(5)>>]
          [] ref = 6 -> [present |-> FALSE, coords |-> <<>>]]

MemberPool ==
    [type : {"way"}, ref : 1..6, role : {"", "backward"}]
        \cup {[type |-> "node", ref |-> 1, role |-> ""]}

RelationInputs ==
    {NoRelation}
        \cup {[isNull |-> FALSE, members |-> m] :
                m \in UNION {[1..n -> MemberPool] : n \in 0..MaxMembers}}

InitRelation ==
    /\ rel \in {RelStart(r, RelWays) : r \in RelationInputs}
    /\ asm = AsmStart(<<>>)
    /\ StitchIdle
    /\ SlcIdle
    /\ FetchIdle
    /\ RunIdle

RelAct ==
    /\ rel.pc = "loop"
    /\ rel' = RelStep(rel)
    /\ UNCHANGED <<asm, stc, slc, fetchVars, runVars>>

NextRelation == RelAct

SpecRelation == InitRelation /\ [][NextRelation]_vars

---------------------------------------------------------------------------
(* Properties of buildLineFromRelation.                                    *)

\* C20: every member pushed after the first is attached by the end nearer
\* to the tail of the line: its fragment, reversed already when the role is
\* backward, is flipped exactly when its last coordinate is strictly nearer
\* to the tail than its first, and its first coordinate after that is left
\* out exactly when it has the key of the tail.
C20_NearerEndAttached ==
    \A k \in 1..Len(rel.joins) :
        LET j == rel.joins[k]
            way == rel.waysById[j.member.ref].coords
            tail == Last(j.before)
            added == SubSeq(j.after, Len(j.before) + 1, Len(j.after))
            flipped == DistanceMm(tail, Last(j.segment))
                         < DistanceMm(tail, j.segment[1])
            oriented == IF flipped THEN Reverse(j.segment) ELSE j.segment
        IN  /\ j.segment = IF j.member.role = "backward" THEN Reverse(way) ELSE way
            /\ SubSeq(j.after, 1, Len(j.before)) = j.before
            /\ k = 1 => (j.before = <<>> /\ j.after = j.segment)
            /\ k > 1 =>
                /\ j.before = rel.joins[k - 1].after
                /\ DistanceMm(tail, oriented[1]) <= DistanceMm(tail, Last(oriented))
                /\ added = IF ToKey(oriented[1]) = ToKey(tail)
                           THEN Tail(oriented) ELSE oriented

\* Way 1, then way 2, whose first coordinate has the key of the tail and
\* is left out, then way 4, whose ends are equally near the tail and which
\* is not flipped.
C20_Witness ==
    /\ rel.pc = "done"
    /\ Len(rel.joins) = 3
    /\ rel.joins[2].member = [type |-> "way", ref |-> 2, role |-> ""]
    /\ rel.joins[3].member = [type |-> "way", ref |-> 4, role |-> ""]
    /\ rel.coords = <<Pt(0), Pt(10), Pt(20), Pt(10), Pt(30)>>

---------------------------------------------------------------------------
(* The inputs of the slicer.  Road lines: one of 10 km with a vertex at    *)
(* 5003775 mm; one with a gap of 12 km between two stretches of 4 km; one  *)
(* of two coordinates 100 km apart; one of 3 km; one whose two coordinates *)
(* are the same point, of length 0.  kmStart and kmEnd, in millimetres,    *)
(* include a negative value, values beyond the roads and the vertex of the *)
(* first road.                                                             *)

RoadLines ==
    { <<Pt(0), Pt(45000), Pt(90000)>>,
      <<KmPt(0), KmPt(4), KmPt(16), KmPt(20)>>,
      <<KmPt(0), KmPt(100)>>,
      <<KmPt(3), KmPt(0)>>,
      <<Pt(0), Pt(0)>> }

KmValues ==
    {-3000000, 0, 2000000, 5003775, 10000000, 18000000, 50000000, 150000000}

InitSlice ==
    /\ slc \in {SlcStart(line, kmStart, kmEnd) :
                  line \in RoadLines, kmStart \in KmValues, kmEnd \in KmValues}
    /\ asm = AsmStart(<<>>)
    /\ StitchIdle
    /\ RelIdle
    /\ FetchIdle
    /\ RunIdle

NormalizeAct ==
    /\ slc.pc = "normalize"
    /\ slc' = SlcNormalize(slc)

SliceAct ==
    /\ slc.pc = "slice"
    /\ Len(LineSliceAlong(slc.line, slc.start, slc.end).coords) >= 2
    /\ slc' = SlcSlice(slc)

\* lineString of @turf/helpers, called by @turf/line-slice-along with one
\* coordinate, returns the one-coordinate line in the releases that do not
\* validate the length, and the callback takes the fallback ...
FallbackAct ==
    /\ slc.pc = "slice"
    /\ Len(LineSliceAlong(slc.line, slc.start, slc.end).coords) < 2
    /\ slc' = SlcFallback(slc)

\* ... and throws in the releases that do: the exception leaves the
\* callback and the script, and no geometry is emitted.
SliceThrowsAct ==
    /\ slc.pc = "slice"
    /\ Len(LineSliceAlong(slc.line, slc.start, slc.end).coords) < 2
    /\ slc' = [slc EXCEPT !.pc = "thrown"]

ShapeAct ==
    /\ slc.pc = "shape"
    /\ slc' = SlcShape(slc)

NextSlice ==
    \/ NormalizeAct /\ UNCHANGED <<asm, stc, rel, fetchVars, runVars>>
    \/ SliceAct /\ UNCHANGED <<asm, stc, rel, fetchVars, runVars>>
    \/ FallbackAct /\ UNCHANGED <<asm, stc, rel, fetchVars, runVars>>
    \/ SliceThrowsAct /\ UNCHANGED <<asm, stc, rel, fetchVars, runVars>>
    \/ ShapeAct /\ UNCHANGED <<asm, stc, rel, fetchVars, runVars>>

SpecSlice == InitSlice /\ [][NextSlice]_vars

---------------------------------------------------------------------------
(* Properties of the slicer.                                               *)

SlcDone == slc.pc = "done"

Road100Km == <<KmPt(0), KmPt(100)>>

RoadWithGap == <<KmPt(0), KmPt(4), KmPt(16), KmPt(20)>>

\* A raw kilometre value brought into [0, totalLength].
Within(v, totalLength) ==
    IF v < 0 THEN 0 ELSE IF v > totalLength THEN totalLength ELSE v

\* C12: once the segment is normalized, 0 <= start <= end <= totalLength;
\* start is the smaller and end the larger of kmStart and kmEnd, each
\* brought into [0, totalLength]; kmStart = 50 and kmEnd = 10 on the road of
\* 100 km give start = 10 and end = 50.
C12_Normalized ==
    slc.pc \in {"slice", "shape", "done", "thrown"} =>
        LET lo == IF slc.kmStart <= slc.kmEnd THEN slc.kmStart ELSE slc.kmEnd
            hi == IF slc.kmStart <= slc.kmEnd THEN slc.kmEnd ELSE slc.kmStart
        IN  /\ 0 <= slc.start
            /\ slc.start <= slc.end
            /\ slc.end <= slc.totalLength
            /\ slc.start = Within(lo, slc.totalLength)
            /\ slc.end = Within(hi, slc.totalLength)
            /\ (slc.line = Road100Km /\ slc.kmStart = 50000000
                  /\ slc.kmEnd = 10000000)
                 => (slc.start = 10000000 /\ slc.end = 50000000)

\* A segment given from a negative kilometre to one beyond the road has
\* been normalized to the whole road.
C12_Witness ==
    /\ slc.pc = "slice"
    /\ slc.kmStart = 150000000
    /\ slc.kmEnd = -3000000
    /\ slc.line = RoadWithGap
    /\ slc.start = 0
    /\ slc.end = slc.totalLength

\* C13: the geometry of every feature emitted is a LineString of one line
\* part or a MultiLineString of two or more, and every line part has at
\* least 2 coordinates.
C13_TwoCoordinates ==
    SlcDone =>
        /\ slc.geometry.type \in {"LineString", "MultiLineString"}
        /\ slc.geometry.type = "LineString" => Len(slc.geometry.coordinates) = 1
        /\ slc.geometry.type = "MultiLineString" => Len(slc.geometry.coordinates) >= 2
        /\ \A p \in 1..Len(slc.geometry.coordinates) :
              Len(slc.geometry.coordinates[p]) >= 2

\* A slice whose two coordinates lie 40 km apart: gap splitting left no
\* run and the feature has the slice as its geometry.
C13_Witness ==
    /\ SlcDone
    /\ slc.path = "slice"
    /\ slc.line = Road100Km
    /\ slc.cleanedChunks = <<>>
    /\ Len(slc.geometry.coordinates[1]) = 2

EightKm == 8 * 1000000

Gap(coords, k) == DistanceMm(coords[k], coords[k + 1])

\* The runs of a coordinate sequence, each as <<a, b>>, its first and last
\* index: the longest stretches of two or more coordinates in which no two
\* consecutive coordinates are more than 8 km apart.
RunBounds(coords) ==
    {r \in (1..Len(coords)) \X (1..Len(coords)) :
        /\ r[1] < r[2]
        /\ \A k \in r[1]..(r[2] - 1) : Gap(coords, k) <= EightKm
        /\ (r[1] = 1 \/ Gap(coords, r[1] - 1) > EightKm)
        /\ (r[2] = Len(coords) \/ Gap(coords, r[2]) > EightKm)}

\* The line parts are the runs, in their order.
PartsAreRuns(parts, coords) ==
    /\ Len(parts) = Cardinality(RunBounds(coords))
    /\ \A p \in 1..Len(parts) :
        \E r \in RunBounds(coords) :
            /\ parts[p] = SubSeq(coords, r[1], r[2])
            /\ Cardinality({q \in RunBounds(coords) : q[1] < r[1]}) = p - 1

\* C14: when the coordinates handed to gap splitting have exactly one run,
\* the geometry emitted is the LineString of that run; when they have two
\* or more, it is the MultiLineString of all the runs in their order.  The
\* road with the gap of 12 km, sliced from km 2 to km 18, gives a
\* MultiLineString of two parts.
C14_ShapeByRuns ==
    SlcDone =>
        /\ Cardinality(RunBounds(slc.unshaped)) = 1 =>
            /\ slc.geometry.type = "LineString"
            /\ PartsAreRuns(slc.geometry.coordinates, slc.unshaped)
        /\ Cardinality(RunBounds(slc.unshaped)) >= 2 =>
            /\ slc.geometry.type = "MultiLineString"
            /\ PartsAreRuns(slc.geometry.coordinates, slc.unshaped)
        /\ (slc.line = RoadWithGap /\ slc.start = 2000000 /\ slc.end = 18000000) =>
            /\ slc.geometry.type = "MultiLineString"
            /\ Len(slc.geometry.coordinates) = 2

\* The road with the gap of 12 km has been sliced from km 2 to km 18, and
\* the feature has the two stretches on either side of the gap.
C14_Witness ==
    /\ SlcDone
    /\ slc.line = RoadWithGap
    /\ slc.kmStart = 18000000
    /\ slc.kmEnd = 2000000
    /\ slc.geometry.type = "MultiLineString"
    /\ slc.geometry.coordinates[1][2] = KmPt(4)
    /\ slc.geometry.coordinates[2][1] = KmPt(16)

NoWideGap(parts) ==
    \A p \in 1..Len(parts) :
        \A k \in 1..(Len(parts[p]) - 1) : Gap(parts[p], k) <= EightKm

\* C17, as stated: no line part of an emitted geometry has two consecutive
\* coordinates more than 8 km apart.
C17_AsClaimed == SlcDone => NoWideGap(slc.geometry.coordinates)

\* C17, amended: when gap splitting leaves at least one run, no line part
\* of the emitted geometry has two consecutive coordinates more than 8 km
\* apart; when it leaves none, the geometry emitted is the unsplit line,
\* every two consecutive coordinates of which are more than 8 km apart.
C17_NoWideGapInRuns ==
    SlcDone =>
        IF RunBounds(slc.unshaped) # {}
        THEN NoWideGap(slc.geometry.coordinates)
        ELSE /\ slc.geometry = LineGeometry(slc.unshaped)
             /\ \A k \in 1..(Len(slc.unshaped) - 1) :
                  Gap(slc.unshaped, k) > EightKm

\* The road with the gap of 12 km, sliced from its start to km 18, has been
\* split at the gap.
C17_Witness ==
    /\ SlcDone
    /\ slc.line = RoadWithGap
    /\ slc.start = 0
    /\ slc.end = 18000000
    /\ Len(slc.unshaped) = 4
    /\ Gap(slc.unshaped, 2) > EightKm
    /\ Len(slc.geometry.coordinates) = 2

InFallback == slc.path = "fallback"

\* C19, as stated: in the fallback the two distances differ and lie in
\* [0, totalLength], whatever start, end and totalLength are.
C19_AsClaimed ==
    InFallback =>
        /\ slc.fallbackStart # slc.fallbackEnd
        /\ 0 <= slc.fallbackStart /\ slc.fallbackStart <= slc.totalLength
        /\ 0 <= slc.fallbackEnd /\ slc.fallbackEnd <= slc.totalLength

\* C19, amended: in the fallback both distances lie in [0, totalLength] and
\* delta is max(0.05, min(1, 1% of totalLength)) km; when totalLength > 0
\* the two distances differ, fallbackStart before fallbackEnd, being start
\* less half of delta and end plus half of delta, each held within the
\* road.
C19_FallbackDistances ==
    InFallback =>
        /\ 0 <= slc.fallbackStart /\ slc.fallbackStart <= slc.totalLength
        /\ 0 <= slc.fallbackEnd /\ slc.fallbackEnd <= slc.totalLength
        /\ slc.delta >= 50000 /\ slc.delta <= 1000000
        /\ slc.delta = IF slc.totalLength <= 5000000 THEN 50000
                       ELSE IF slc.totalLength >= 100000000 THEN 1000000
                       ELSE slc.totalLength \div 100
        /\ slc.totalLength > 0 =>
            /\ slc.fallbackStart < slc.fallbackEnd
            /\ slc.fallbackStart = Within(slc.start - slc.delta \div 2, slc.totalLength)
            /\ slc.fallbackEnd = Within(slc.end + slc.delta \div 2, slc.totalLength)

\* The fallback taken at the start of the road of 3 km: fallbackStart is
\* held at 0 and fallbackEnd lies half of the least delta further.
C19_Witness ==
    /\ InFallback
    /\ slc.line = <<KmPt(3), KmPt(0)>>
    /\ slc.start = 0
    /\ slc.end = 0
    /\ slc.fallbackStart = 0
    /\ slc.fallbackEnd = 25000

==========================================================================
